---------------------------- MODULE Spec2Model ----------------------------
(***************************************************************************)
(* Model of the device-batch scripts of python_ansible_lvt:                *)
(*   netconf/adv_netconf_using_ncclient.py   (main, connect_netconf)       *)
(*   basic_scripts/backup_config.py          (backup loop)                 *)
(*   basic_scripts/netmiko_using_for_loops_err_handling.py                 *)
(*   run_scripts/run_push_config.py + tools/config_utils.push_config       *)
(*   run_scripts/run_show_commands.py + tools/show_utils.run_show_commands *)
(*   run_scripts/tools/inventory_utils.load_devices_from_yaml              *)
(* One run executes one script; Init chooses which one.  Every library     *)
(* call (netmiko, ncclient, open/write) is an input: its outcome is drawn  *)
(* from the outcomes the call can have, "ok" or an exception class.        *)
(* Text is a sequence of one-character strings, so that substring tests,   *)
(* strip, join and replace are computed and not assumed.                   *)
(* Not modelled: the prompts themselves (input() raising EOFError or        *)
(* KeyboardInterrupt), and line 1 of adv_netconf_using_ncclient.py, whose   *)
(* stray leading `i` raises NameError when the file is run as it stands;   *)
(* the model describes main() as written from line 233 on.                 *)
(***************************************************************************)
EXTENDS Integers, Sequences, FiniteSets, TLC

\* ------------------------------------------------------------------------
\* Bounds
\* ------------------------------------------------------------------------

\* Longest device list (entered IPs / inventory records) that is explored.
MaxDevices == 2

\* ------------------------------------------------------------------------
\* Text helpers (Python str operations on character sequences)
\* ------------------------------------------------------------------------

\* needle in hay
Contains(needle, hay) ==
    \E k \in 0..(Len(hay) - Len(needle)) :
        SubSeq(hay, k + 1, k + Len(needle)) = needle

\* s.startswith(prefix)
StartsWith(prefix, s) ==
    /\ Len(s) >= Len(prefix)
    /\ SubSeq(s, 1, Len(prefix)) = prefix

IsSpace(c) == c \in {" ", "\n", "\t"}

RECURSIVE LStrip(_)
LStrip(s) ==
    IF s # <<>> /\ IsSpace(Head(s)) THEN LStrip(Tail(s)) ELSE s

RECURSIVE RStrip(_)
RStrip(s) ==
    IF s # <<>> /\ IsSpace(s[Len(s)]) THEN RStrip(SubSeq(s, 1, Len(s) - 1)) ELSE s

\* s.strip()
Strip(s) == LStrip(RStrip(s))

\* "\n".join(lines)
RECURSIVE JoinLines(_)
JoinLines(lines) ==
    IF lines = <<>> THEN <<>>
    ELSE IF Len(lines) = 1 THEN lines[1]
    ELSE lines[1] \o <<"\n">> \o JoinLines(Tail(lines))

\* index (1-based) of the first occurrence of needle in hay, 0 if none
FirstIndex(needle, hay) ==
    IF Contains(needle, hay)
    THEN CHOOSE k \in 1..(Len(hay) - Len(needle) + 1) :
            /\ SubSeq(hay, k, k + Len(needle) - 1) = needle
            /\ \A j \in 1..(k - 1) : SubSeq(hay, j, j + Len(needle) - 1) # needle
    ELSE 0

\* s.replace(old, new, 1)
ReplaceFirst(s, old, new) ==
    LET k == FirstIndex(old, s)
    IN  IF k = 0 THEN s
        ELSE SubSeq(s, 1, k - 1) \o new \o SubSeq(s, k + Len(old), Len(s))

\* ------------------------------------------------------------------------
\* Literals of the source
\* ------------------------------------------------------------------------

ConfigTag == <<"<","c","o","n","f","i","g">>
EndMarker == <<"E","N","D">>
CandidateTag == <<":","c","a","n","d","i","d","a","t","e">>
ValidateTag == <<":","v","a","l","i","d","a","t","e">>
tailf == <<"x","m","l","n","s","=","\"","h","t","t","p",":","/","/","t","a","i","l","-","f",".","c","o","m","/","n","s","/","c","o","n","f","i","g","/","1",".","0","\"">>
netconf_base == <<"x","m","l","n","s","=","\"","u","r","n",":","i","e","t","f",":","p","a","r","a","m","s",":","x","m","l",":","n","s",":","n","e","t","c","o","n","f",":","b","a","s","e",":","1",".","0","\"">>
HostnameRulePrefix == <<"C","O","R","E">>

\* ports=(830, 22), the default of connect_netconf
ports == <<830, 22>>

\* ------------------------------------------------------------------------
\* Outcomes of library calls
\* ------------------------------------------------------------------------

\* An ncclient RPC returns, raises RPCError (the device answered <rpc-error>),
\* or raises another exception that is not an RPCError (TimeoutExpiredError,
\* TransportError, SessionCloseError, ...).
RpcOutcomes == {"ok", "RPCError", "Other"}

\* edit_config can also raise XMLError on a payload that is not well formed.
EditOutcomes == RpcOutcomes \cup {"XMLError"}

\* manager.connect returns or raises (SessionCloseError, SSHError) or another
\* exception.
HandshakeOutcomes == {"ok", "SSHError", "Other"}

\* A netmiko call, a file write: returns or raises some Exception.
CallOutcomes == {"ok", "Exception"}

Ev(op, port, res) == [op |-> op, port |-> port, res |-> res]

VARIABLES
    script,         \* which script this run executes
    pc,             \* position in the script
    devices,        \* the device list the loop iterates over
    i,              \* index of the current device, 0 before the loop
    mode,           \* main: "show" or "changes"
    show_mode,      \* main: "1" or "2"
    config_xml,     \* main: the payload that will be sent
    has_candidate,  \* main: ':candidate' advertised by the current device
    has_validate,   \* main: ':validate' advertised by the current device
    used_port,      \* main: port of the current NETCONF session
    open,           \* indices of the devices whose session is open
    started,        \* indices of the devices whose loop body has begun
    contacted,      \* indices of the devices a network operation was issued to
    rpcs,           \* network operations issued for the current device, in order
    raising,        \* an exception is propagating (through finally / out of the script)
    doc,            \* the parsed inventory document
    printed,        \* outcome lines printed by push_config, in order
    hostname,       \* backup loop: hostname of the current device
    config,         \* backup loop: running config of the current device
    sent,           \* netmiko loops: number of commands sent to the current device
    load_outcome,   \* "none", "ok", or the exception load_devices_from_yaml raised
    choice,         \* main: the last answer of commit_or_rollback
    ips             \* run_ping_check.py: the host values handed to run_ping_check

vars == <<script, pc, devices, i, mode, show_mode, config_xml, has_candidate,
          has_validate, used_port, open, started, contacted, rpcs, raising,
          doc, printed, hostname, config, sent, load_outcome, choice, ips>>


\* ------------------------------------------------------------------------
\* Inputs typed or pasted at the prompts of main
\* ------------------------------------------------------------------------

Digit == <<"1", "2", "3", "4", "5">>

\* the j-th host an operator may type
HostName(j) == <<"r", Digit[j]>>

\* s.split(",")
RECURSIVE SplitComma(_)
SplitComma(s) ==
    LET k == FirstIndex(<<",">>, s)
    IN  IF k = 0 THEN <<s>>
        ELSE <<SubSeq(s, 1, k - 1)>> \o SplitComma(SubSeq(s, k + 1, Len(s)))

RECURSIVE StripNonEmpty(_)
StripNonEmpty(parts) ==
    IF parts = <<>> THEN <<>>
    ELSE IF Strip(Head(parts)) # <<>>
         THEN <<Strip(Head(parts))>> \o StripNonEmpty(Tail(parts))
         ELSE StripNonEmpty(Tail(parts))

\* devices = [d.strip() for d in ip_input.split(",") if d.strip()]
ParseDevices(ip_input) == StripNonEmpty(SplitComma(Strip(ip_input)))

RECURSIVE JoinComma(_)
JoinComma(parts) ==
    IF parts = <<>> THEN <<>>
    ELSE IF Len(parts) = 1 THEN parts[1]
    ELSE parts[1] \o <<",">> \o JoinComma(Tail(parts))

\* What the operator types at the IP prompt: up to MaxDevices comma-separated
\* entries, each a host (with a blank in front) or only a blank.
IpInputs ==
    { JoinComma([j \in 1..n |-> IF f[j] THEN <<" ">> \o HostName(j) ELSE <<" ">>]) :
        n \in 0..MaxDevices, f \in [1..MaxDevices -> BOOLEAN] }

\* Lines pasted at the payload / filter prompt, the END line included.
PastedTexts ==
    { << <<"<","c","o","n","f","i","g","/",">">>, <<"E","N","D">> >>,
      << <<"<","c","o","n","f">>, <<"i","g","/",">">>, <<" ","E","N","D"," ">> >>,
      << <<"E","N","D">>, <<"<","c","o","n","f","i","g","/",">">> >>,
      << <<" ","<","c","o","n","f","i","g"," ","x","m","l","n","s","=","\"","h","t","t","p",":","/","/","t","a","i","l","-","f",".","c","o","m","/","n","s","/","c","o","n","f","i","g","/","1",".","0","\"","/",">"," ">>, <<"E","N","D">> >>,
      << <<"c","o","n","f","i","g">>, <<"E","N","D">> >>,
      << <<"<","x",">","<","c","o","n","f","i","g","/",">","<","/","x",">">>, <<"E","N","D">> >> }

\* the lines read by the `while True: line = input()` loops of main
RECURSIVE ReadUntilEnd(_)
ReadUntilEnd(stream) ==
    IF stream = <<>> \/ Strip(Head(stream)) = EndMarker THEN <<>>
    ELSE <<Head(stream)>> \o ReadUntilEnd(Tail(stream))

\* "\n".join(lines).strip()
PastedPayload(stream) == Strip(JoinLines(ReadUntilEnd(stream)))

\* a test for the element name without its opening bracket
PayloadHasConfigName(xml) == Contains(Tail(ConfigTag), xml)

\* the test of line 307, negated: "<config" in config_xml
PayloadHasConfig(xml) == Contains(ConfigTag, xml)

normalize_config_xml(xml_text) ==
    IF xml_text = <<>> THEN xml_text
    ELSE LET s == Strip(xml_text)
         IN  IF Contains(tailf, s) THEN ReplaceFirst(s, tailf, netconf_base) ELSE s

\* Capability strings a device may advertise in its <hello>.
CapabilitySamples ==
    { <<"u","r","n",":","b","a","s","e",":","1",".","0">>,
      <<"u","r","n",":","c","a","p","a","b","i","l","i","t","y",":","c","a","n","d","i","d","a","t","e",":","1",".","0">>,
      <<"u","r","n",":","c","a","p","a","b","i","l","i","t","y",":","v","a","l","i","d","a","t","e",":","1",".","1">>,
      <<"c","a","n","d","i","d","a","t","e","-","v","a","l","i","d","a","t","e">> }

\* any(tag in c for c in caps)
HasCapability(tag, caps) == \E c \in caps : Contains(tag, c)

\* Answers typed at the commit-or-rollback menu.
MenuAnswers == { <<"1">>, <<"2">>, <<"x", "1">>, <<"", "2">> }

RECURSIVE commit_or_rollback(_)
commit_or_rollback(answers) ==
    IF answers = <<>> THEN "rollback"
    ELSE IF Head(answers) = "1" THEN "commit"
    ELSE IF Head(answers) = "2" THEN "rollback"
    ELSE commit_or_rollback(Tail(answers))

\* ------------------------------------------------------------------------
\* netconf/adv_netconf_using_ncclient.py
\* ------------------------------------------------------------------------

\* a connect_netconf that gives up at the first closed port (`break` in the
\* place of `continue`)
RECURSIVE connect_netconf_break(_, _, _)
connect_netconf_break(ps, probe, hs) ==
    IF ps = <<>> THEN [m |-> FALSE, port |-> 0, events |-> <<>>]
    ELSE LET port == Head(ps)
             rest == connect_netconf_break(Tail(ps), probe, hs)
         IN  IF ~probe[port]
             THEN [m |-> FALSE, port |-> 0, events |-> <<Ev("probe", port, "closed")>>]
             ELSE IF hs[port] = "ok"
             THEN [m |-> TRUE, port |-> port,
                   events |-> <<Ev("probe", port, "open"), Ev("connect", port, "ok")>>]
             ELSE [rest EXCEPT !.events =
                       <<Ev("probe", port, "open"), Ev("connect", port, hs[port])>> \o @]

\* connect_netconf: try the ports in order.  probe[p] is the result of
\* port_open(host, p), hs[p] the outcome of manager.connect on port p.
\* Returns whether a session was obtained, the port used and the network
\* operations issued; m = FALSE is the `raise Exception` of line 130.
RECURSIVE connect_netconf(_, _, _)
connect_netconf(ps, probe, hs) ==
    IF ps = <<>> THEN [m |-> FALSE, port |-> 0, events |-> <<>>]
    ELSE LET port == Head(ps)
             rest == connect_netconf(Tail(ps), probe, hs)
         IN  IF ~probe[port]
             THEN [rest EXCEPT !.events = <<Ev("probe", port, "closed")>> \o @]
             ELSE IF hs[port] = "ok"
             THEN [m |-> TRUE, port |-> port,
                   events |-> <<Ev("probe", port, "open"), Ev("connect", port, "ok")>>]
             ELSE [rest EXCEPT !.events =
                       <<Ev("probe", port, "open"), Ev("connect", port, hs[port])>> \o @]

PortSet == {ports[k] : k \in 1..Len(ports)}

\* an RPC (or close_session) sent on the session of the current device
Issue(op, res) ==
    /\ rpcs' = Append(rpcs, Ev(op, used_port, res))
    /\ contacted' = contacted \cup {i}

\* m.close_session(): the session is closed when the call returns
CloseSession(res) ==
    /\ Issue("close-session", res)
    /\ open' = IF res = "ok" THEN open \ {i} ELSE open

\* the exception leaves main: nothing after the raising statement runs
Propagate ==
    /\ raising' = TRUE
    /\ pc' = "crashed"

\* lines 233-317: the prompts before the device loop
MainPrompts ==
    /\ script = "netconf" /\ pc = "start"
    /\ \E ip_input \in IpInputs, mode_choice \in {"1", "2", ""},
          show_choice \in {"1", "2", "x"}, pasted \in PastedTexts :
        LET devs == ParseDevices(ip_input)
            m    == IF mode_choice = "2" THEN "changes" ELSE "show"
            sm   == IF show_choice \in {"1", "2"} THEN show_choice ELSE "1"
            xml  == PastedPayload(pasted)
        IN  /\ devices' = devs
            /\ IF devs = <<>>
               THEN /\ pc' = "exit_no_devices"
                    /\ UNCHANGED <<mode, show_mode, config_xml>>
               ELSE /\ mode' = m
                    /\ IF m = "show"
                       THEN /\ show_mode' = IF sm = "2" /\ xml = <<>> THEN "1" ELSE sm
                            /\ config_xml' = <<>>
                            /\ pc' = "loop"
                       ELSE /\ show_mode' = "none"
                            /\ IF ~PayloadHasConfig(xml)
                               THEN /\ config_xml' = xml
                                    /\ pc' = "exit_bad_payload"
                               ELSE /\ config_xml' = normalize_config_xml(xml)
                                    /\ pc' = "loop"
    /\ UNCHANGED <<script, i, has_candidate, has_validate, used_port, open,
                   started, contacted, rpcs, raising, doc, printed, hostname, config, sent, load_outcome, choice, ips>>

\* line 320 (`for host in devices`) and line 505
MainLoop ==
    /\ script = "netconf" /\ pc = "loop"
    /\ IF i < Len(devices)
       THEN /\ i' = i + 1
            /\ started' = started \cup {i + 1}
            /\ rpcs' = <<>>
            /\ pc' = "connect"
       ELSE /\ pc' = "done"
            /\ UNCHANGED <<i, started, rpcs>>
    /\ UNCHANGED <<script, devices, mode, show_mode, config_xml, has_candidate,
                   has_validate, used_port, open, contacted, raising, doc,
                   printed, hostname, config, sent, load_outcome, choice, ips>>

\* lines 327-341: connect (the keepalive call is guarded by `except Exception`
\* and has no effect on the control flow)
MainConnect ==
    /\ script = "netconf" /\ pc = "connect"
    /\ \E probe \in [PortSet -> BOOLEAN], hs \in [PortSet -> HandshakeOutcomes] :
        LET r == connect_netconf(ports, probe, hs)
        IN  /\ rpcs' = rpcs \o r.events
            /\ contacted' = contacted \cup {i}
            /\ used_port' = r.port
            /\ IF r.m
               THEN /\ open' = open \cup {i}
                    /\ pc' = "caps"
               ELSE /\ open' = open
                    /\ pc' = "loop"
    /\ UNCHANGED <<script, devices, i, mode, show_mode, config_xml, has_candidate,
                   has_validate, started, raising, doc, printed, hostname, config, sent, load_outcome, choice, ips>>

\* lines 345-355, 361-362, 395-396: capability flags and the branch on mode
MainCapabilities ==
    /\ script = "netconf" /\ pc = "caps"
    /\ \E caps \in SUBSET CapabilitySamples :
        LET hc == HasCapability(CandidateTag, caps)
            hv == HasCapability(ValidateTag, caps)
        IN  /\ has_candidate' = hc
            /\ has_validate' = hv
            /\ pc' = IF mode = "changes" /\ ~hc THEN "close_nocand"
                     ELSE IF mode = "show" THEN "show"
                     ELSE "lock"
    /\ UNCHANGED <<script, devices, i, mode, show_mode, config_xml, used_port,
                   open, started, contacted, rpcs, raising, doc, printed,
                   hostname, config, sent, load_outcome, choice, ips>>

\* a close_session() outside any try block (lines 357, 391, 407)
UnguardedClose(at) ==
    /\ script = "netconf" /\ pc = at
    /\ \E res \in RpcOutcomes :
        /\ CloseSession(res)
        /\ IF res = "ok"
           THEN pc' = "loop" /\ UNCHANGED raising
           ELSE Propagate
    /\ UNCHANGED <<script, devices, i, mode, show_mode, config_xml, has_candidate,
                   has_validate, used_port, started, doc, printed, hostname, config, sent, load_outcome, choice, ips>>

\* lines 356-359
MainCloseNoCandidate == UnguardedClose("close_nocand")

\* lines 362-390: get-config, guarded by `except RPCError` only
MainShow ==
    /\ script = "netconf" /\ pc = "show"
    /\ \E res \in RpcOutcomes :
        /\ Issue("get-config", res)
        /\ IF res \in {"ok", "RPCError"}
           THEN pc' = "close_show" /\ UNCHANGED raising
           ELSE Propagate
    /\ UNCHANGED <<script, devices, i, mode, show_mode, config_xml, has_candidate,
                   has_validate, used_port, open, started, doc, printed,
                   hostname, config, sent, load_outcome, choice, ips>>

\* lines 390-393
MainCloseShow == UnguardedClose("close_show")

\* lines 397-405: lock, guarded by `except RPCError` only and outside the
\* try/finally of line 411
MainLock ==
    /\ script = "netconf" /\ pc = "lock"
    /\ \E res \in RpcOutcomes :
        /\ Issue("lock", res)
        /\ IF res = "ok" THEN pc' = "edit" /\ UNCHANGED raising
           ELSE IF res = "RPCError" THEN pc' = "close_lockfail" /\ UNCHANGED raising
           ELSE Propagate
    /\ UNCHANGED <<script, devices, i, mode, show_mode, config_xml, has_candidate,
                   has_validate, used_port, open, started, doc, printed,
                   hostname, config, sent, load_outcome, choice, ips>>

\* lines 406-409
MainCloseLockFailure == UnguardedClose("close_lockfail")

\* Frame of the steps inside the try block of lines 411-495.
TryFrame ==
    UNCHANGED <<script, devices, i, mode, show_mode, config_xml, has_candidate,
                has_validate, used_port, open, started, doc, printed, hostname,
                config, sent, load_outcome, choice, ips>>

\* Frame of the two menu steps, which assign `choice`.
ChooseFrame ==
    UNCHANGED <<script, devices, i, mode, show_mode, config_xml, has_candidate,
                has_validate, used_port, open, started, doc, printed, hostname,
                config, sent, load_outcome, ips>>

\* an exception no handler of the try block matches: the finally clause runs
\* with the exception pending
ToFinallyRaising ==
    /\ raising' = TRUE
    /\ pc' = "finally"

\* lines 411-417: apply_candidate_changes, guarded by (RPCError, XMLError)
MainEdit ==
    /\ script = "netconf" /\ pc = "edit"
    /\ \E res \in EditOutcomes :
        /\ Issue("edit-config", res)
        /\ IF res = "ok" THEN pc' = "validate" /\ UNCHANGED raising
           ELSE IF res \in {"RPCError", "XMLError"}
                THEN pc' = "discard_ef" /\ UNCHANGED raising
           ELSE ToFinallyRaising
    /\ TryFrame

\* lines 418-424: discard-changes after the failed edit, `except Exception`
MainDiscardAfterEditFailure ==
    /\ script = "netconf" /\ pc = "discard_ef"
    /\ \E res \in RpcOutcomes : Issue("discard-changes", res)
    /\ pc' = "unlock_ef"
    /\ UNCHANGED raising
    /\ TryFrame

\* lines 425-430: unlock after the failed edit, `except Exception`
MainUnlockAfterEditFailure ==
    /\ script = "netconf" /\ pc = "unlock_ef"
    /\ \E res \in RpcOutcomes : Issue("unlock", res)
    /\ pc' = "close_ef"
    /\ UNCHANGED raising
    /\ TryFrame

\* a close_session() inside the try block, not guarded itself (lines 432, 469):
\* `continue` and an exception both pass through the finally clause
CloseInTry(at) ==
    /\ script = "netconf" /\ pc = at
    /\ \E res \in RpcOutcomes :
        /\ CloseSession(res)
        /\ raising' = (res # "ok")
        /\ pc' = "finally"
    /\ UNCHANGED <<script, devices, i, mode, show_mode, config_xml, has_candidate,
                   has_validate, used_port, started, doc, printed, hostname, config, sent, load_outcome, choice, ips>>

\* lines 431-434
MainCloseAfterEditFailure == CloseInTry("close_ef")

\* validate_candidate (lines 192-209) called at lines 436-442, `except RPCError`
MainValidate ==
    /\ script = "netconf" /\ pc = "validate"
    /\ IF ~has_validate
       THEN /\ pc' = "choose"
            /\ UNCHANGED <<rpcs, contacted, raising>>
       ELSE \E res \in RpcOutcomes :
            /\ Issue("validate", res)
            /\ IF res = "ok" THEN pc' = "choose" /\ UNCHANGED raising
               ELSE IF res = "RPCError" THEN pc' = "choose_vf" /\ UNCHANGED raising
               ELSE ToFinallyRaising
    /\ TryFrame

\* a failed validation that rolls back whatever the operator answers
MainRollbackAfterValidationFailure ==
    /\ script = "netconf" /\ pc = "choose_vf"
    /\ \E answers \in MenuAnswers : choice' = commit_or_rollback(answers)
    /\ pc' = "discard_vf"
    /\ UNCHANGED <<rpcs, contacted, raising>>
    /\ ChooseFrame

\* lines 444-446, 453: the menu after a failed validation
MainChooseAfterValidationFailure ==
    /\ script = "netconf" /\ pc = "choose_vf"
    /\ \E answers \in MenuAnswers :
        /\ choice' = commit_or_rollback(answers)
        /\ pc' = IF commit_or_rollback(answers) = "commit" THEN "commit_vf" ELSE "discard_vf"
    /\ UNCHANGED <<rpcs, contacted, raising>>
    /\ ChooseFrame

\* a commit or discard-changes guarded by `except RPCError`
\* (lines 447-452, 454-459, 476-481, 483-488)
GuardedRpc(at, op, next) ==
    /\ script = "netconf" /\ pc = at
    /\ \E res \in RpcOutcomes :
        /\ Issue(op, res)
        /\ IF res \in {"ok", "RPCError"}
           THEN pc' = next /\ UNCHANGED raising
           ELSE ToFinallyRaising
    /\ TryFrame

\* lines 447-452
MainCommitAfterValidationFailure == GuardedRpc("commit_vf", "commit", "unlock_vf")

\* lines 454-459
MainDiscardAfterValidationFailure == GuardedRpc("discard_vf", "discard-changes", "unlock_vf")

\* lines 461-466: unlock, `except Exception`
MainUnlockAfterValidationFailure ==
    /\ script = "netconf" /\ pc = "unlock_vf"
    /\ \E res \in RpcOutcomes : Issue("unlock", res)
    /\ pc' = "close_vf"
    /\ UNCHANGED raising
    /\ TryFrame

\* lines 468-471
MainCloseAfterValidationFailure == CloseInTry("close_vf")

\* a menu whose answer is recorded but always followed by the commit
MainChooseAlwaysCommit ==
    /\ script = "netconf" /\ pc = "choose"
    /\ \E answers \in MenuAnswers : choice' = commit_or_rollback(answers)
    /\ pc' = "commit"
    /\ UNCHANGED <<rpcs, contacted, raising>>
    /\ ChooseFrame

\* lines 473-475, 482: the menu after a successful or skipped validation
MainChoose ==
    /\ script = "netconf" /\ pc = "choose"
    /\ \E answers \in MenuAnswers :
        /\ choice' = commit_or_rollback(answers)
        /\ pc' = IF commit_or_rollback(answers) = "commit" THEN "commit" ELSE "discard"
    /\ UNCHANGED <<rpcs, contacted, raising>>
    /\ ChooseFrame

\* lines 476-481
MainCommit == GuardedRpc("commit", "commit", "unlock")

\* lines 483-488
MainDiscard == GuardedRpc("discard", "discard-changes", "unlock")

\* lines 490-495: unlock, `except RPCError`
MainUnlock == GuardedRpc("unlock", "unlock", "finally")

\* lines 497-503: the finally clause; close_session is guarded by
\* `except Exception`, then a pending exception leaves main
MainFinally ==
    /\ script = "netconf" /\ pc = "finally"
    /\ \E res \in RpcOutcomes : CloseSession(res)
    /\ pc' = IF raising THEN "crashed" ELSE "loop"
    /\ UNCHANGED <<script, devices, i, mode, show_mode, config_xml, has_candidate,
                   has_validate, used_port, started, raising, doc, printed,
                   hostname, config, sent, load_outcome, choice, ips>>

\* ------------------------------------------------------------------------
\* run_scripts/tools/inventory_utils.py
\* ------------------------------------------------------------------------

\* the hostname value of the j-th inventory record
HostLabel(j) == <<"R", Digit[j]>>

\* What devices.yaml may be: absent, not YAML, an empty document (safe_load
\* gives None), a mapping without the key, or a mapping whose `devices` is a
\* list of records that carry `host` and, optionally, `hostname`.
InventoryDocs ==
    {[kind |-> "missing"], [kind |-> "malformed"], [kind |-> "empty"],
     [kind |-> "mapping", data |-> [routers |-> <<[host |-> HostName(1)]>>]]}
    \cup
    {[kind |-> "mapping",
      data |-> [devices |-> [j \in 1..n |->
                   IF f[j] THEN [host |-> HostName(j), hostname |-> HostLabel(j)]
                   ELSE [host |-> HostName(j)]]]] :
        n \in 0..MaxDevices, f \in [1..MaxDevices -> BOOLEAN]}

\* a loader that reads the key with a default: data.get("devices", [])
load_devices_from_yaml_default(d) ==
    IF d.kind = "missing" THEN [error |-> "FileNotFoundError"]
    ELSE IF d.kind = "malformed" THEN [error |-> "YAMLError"]
    ELSE IF d.kind = "empty" THEN [error |-> "TypeError"]
    ELSE IF "devices" \in DOMAIN d.data
         THEN [error |-> "none", devices |-> d.data.devices]
         ELSE [error |-> "none", devices |-> <<>>]

\* load_devices_from_yaml: the list, or the exception that leaves the function
\* (no value is returned then)
load_devices_from_yaml(d) ==
    IF d.kind = "missing" THEN [error |-> "FileNotFoundError"]
    ELSE IF d.kind = "malformed" THEN [error |-> "YAMLError"]
    ELSE IF d.kind = "empty" THEN [error |-> "TypeError"]
    ELSE IF "devices" \in DOMAIN d.data
         THEN [error |-> "none", devices |-> d.data.devices]
         ELSE [error |-> "KeyError"]

InventoryScripts == {"run_push", "run_show", "show_utils", "run_ping"}

\* run_push_config.py:7, run_show_commands.py:6, show_utils.py:43,
\* run_ping_check.py:5 (the prompts
\* that follow cannot fail and do not change the control flow)
LoadInventory ==
    /\ script \in InventoryScripts /\ pc = "start"
    /\ \E d \in InventoryDocs :
        LET r == load_devices_from_yaml(d)
        IN  /\ doc' = d
            /\ IF r.error = "none"
               THEN /\ devices' = r.devices
                    /\ load_outcome' = "ok"
                    /\ pc' = "loop"
                    /\ UNCHANGED raising
               ELSE /\ load_outcome' = r.error
                    /\ UNCHANGED devices
                    /\ Propagate
    /\ UNCHANGED <<script, i, mode, show_mode, config_xml, has_candidate,
                   has_validate, used_port, open, started, contacted, rpcs,
                   printed, hostname, config, sent, choice, ips>>

\* ------------------------------------------------------------------------
\* Netmiko helpers
\* ------------------------------------------------------------------------

\* a netmiko call or a file write made for the current device
Call(op, res) ==
    /\ rpcs' = Append(rpcs, Ev(op, 0, res))
    /\ contacted' = contacted \cup {i}

NetmikoFrame ==
    UNCHANGED <<script, devices, i, mode, show_mode, config_xml, has_candidate,
                has_validate, used_port, started, doc, load_outcome, choice, ips>>

\* `for d in devices:` takes the next device, or the script ends
NextDevice(first) ==
    /\ i' = i + 1
    /\ started' = started \cup {i + 1}
    /\ rpcs' = <<>>
    /\ sent' = 0
    /\ pc' = first

LoopFrame ==
    UNCHANGED <<script, devices, mode, show_mode, config_xml, has_candidate,
                has_validate, used_port, open, contacted, doc, printed,
                hostname, config, load_outcome, choice, ips>>

\* ------------------------------------------------------------------------
\* run_scripts/run_push_config.py and tools/config_utils.py
\* ------------------------------------------------------------------------

\* run_push_config.py lines 41-44: d['hostname'] is evaluated by the print
PushLoop ==
    /\ script = "run_push" /\ pc = "loop"
    /\ IF i < Len(devices)
       THEN IF "hostname" \in DOMAIN devices[i + 1]
            THEN NextDevice("push_connect") /\ UNCHANGED raising
            ELSE /\ i' = i + 1
                 /\ started' = started \cup {i + 1}
                 /\ rpcs' = <<>>
                 /\ sent' = 0
                 /\ Propagate
       ELSE /\ pc' = "done"
            /\ UNCHANGED <<i, started, rpcs, sent, raising>>
    /\ LoopFrame

\* push_config lines 17-23, 26-27
PushConfigConnect ==
    /\ script = "run_push" /\ pc = "push_connect"
    /\ \E res \in CallOutcomes :
        /\ Call("connect", res)
        /\ IF res = "ok"
           THEN /\ open' = open \cup {i}
                /\ pc' = "push_send"
                /\ UNCHANGED printed
           ELSE /\ open' = open
                /\ printed' = Append(printed, [dev |-> i, line |-> "ERROR pushing config"])
                /\ pc' = "push_finally"
    /\ UNCHANGED <<raising, hostname, config, sent>>
    /\ NetmikoFrame

\* push_config lines 24-27
PushConfigSend ==
    /\ script = "run_push" /\ pc = "push_send"
    /\ \E res \in CallOutcomes :
        /\ Call("send_config_set", res)
        /\ printed' = Append(printed,
               [dev |-> i, line |-> IF res = "ok" THEN "Config pushed"
                                    ELSE "ERROR pushing config"])
    /\ pc' = "push_finally"
    /\ UNCHANGED <<open, raising, hostname, config, sent>>
    /\ NetmikoFrame

\* the finally clause `if conn: conn.disconnect()` of push_config (28-30) and
\* of run_show_commands (32-34)
FinallyDisconnect(at) ==
    /\ pc = at
    /\ IF i \in open
       THEN \E res \in CallOutcomes :
            /\ Call("disconnect", res)
            /\ IF res = "ok"
               THEN open' = open \ {i} /\ pc' = "loop" /\ UNCHANGED raising
               ELSE open' = open /\ Propagate
       ELSE /\ pc' = "loop"
            /\ UNCHANGED <<rpcs, contacted, open, raising>>
    /\ UNCHANGED <<printed, hostname, config, sent>>
    /\ NetmikoFrame

\* push_config lines 28-30
PushConfigFinally == script = "run_push" /\ FinallyDisconnect("push_finally")

\* ------------------------------------------------------------------------
\* run_scripts/run_show_commands.py and tools/show_utils.py
\* ------------------------------------------------------------------------

\* run_show_commands(device, commands, username, password)
RunShowCommandsParams == 4

\* arguments passed by the caller: run_show_commands.py:24 passes
\* (d, commands), show_utils.py:52 passes (dev, commands, username, password)
CallArgs(s) == IF s = "run_show" THEN 2 ELSE 4

\* commands = [cmd] in run_show_commands.py:19, two commands in show_utils.py:46
NumCommands(s) == IF s = "run_show" THEN 1 ELSE 2

\* run_show_commands.py lines 21-24, show_utils.py lines 51-52
ShowLoop ==
    /\ script \in {"run_show", "show_utils"} /\ pc = "loop"
    /\ IF i < Len(devices)
       THEN IF /\ script = "run_show" => "hostname" \in DOMAIN devices[i + 1]
               /\ CallArgs(script) = RunShowCommandsParams
            THEN NextDevice("rsc_connect") /\ UNCHANGED raising
            ELSE /\ i' = i + 1
                 /\ started' = started \cup {i + 1}
                 /\ rpcs' = <<>>
                 /\ sent' = 0
                 /\ Propagate
       ELSE /\ pc' = "done"
            /\ UNCHANGED <<i, started, rpcs, sent, raising>>
    /\ LoopFrame

\* run_show_commands lines 18-24, 30-31
RunShowConnect ==
    /\ script = "show_utils" /\ pc = "rsc_connect"
    /\ \E res \in CallOutcomes :
        /\ Call("connect", res)
        /\ IF res = "ok"
           THEN open' = open \cup {i} /\ pc' = "rsc_send"
           ELSE open' = open /\ pc' = "rsc_finally"
    /\ UNCHANGED <<raising, printed, hostname, config, sent>>
    /\ NetmikoFrame

\* run_show_commands lines 26-31
RunShowSend ==
    /\ script = "show_utils" /\ pc = "rsc_send"
    /\ \E res \in CallOutcomes :
        /\ Call("send_command", res)
        /\ IF res = "ok"
           THEN /\ sent' = sent + 1
                /\ pc' = IF sent + 1 = NumCommands(script) THEN "rsc_finally" ELSE "rsc_send"
           ELSE /\ sent' = sent
                /\ pc' = "rsc_finally"
    /\ UNCHANGED <<open, raising, printed, hostname, config>>
    /\ NetmikoFrame

\* run_show_commands lines 32-34
RunShowFinally == script = "show_utils" /\ FinallyDisconnect("rsc_finally")

\* ------------------------------------------------------------------------
\* basic_scripts/netmiko_using_for_loops_err_handling.py
\* ------------------------------------------------------------------------

\* device_ips / router_ips, the hard-coded two routers
router_ips == << <<"1","0",".","0",".","0",".","5","1">>, <<"1","0",".","0",".","0",".","5","2">> >>

\* lines 1-55 of netmiko_using_for_loops_err_handling.py and lines 1-8 of
\* backup_config.py: the module-level definitions
HardCodedSetup ==
    /\ script \in {"forloop", "backup"} /\ pc = "start"
    /\ devices' = router_ips
    /\ pc' = "loop"
    /\ UNCHANGED <<script, i, mode, show_mode, config_xml, has_candidate,
                   has_validate, used_port, open, started, contacted, rpcs,
                   raising, doc, printed, hostname, config, sent, load_outcome, choice, ips>>

\* lines 62-63
ForLoop ==
    /\ script = "forloop" /\ pc = "loop"
    /\ IF i < Len(devices)
       THEN NextDevice("for_connect")
       ELSE pc' = "done" /\ UNCHANGED <<i, started, rpcs, sent>>
    /\ UNCHANGED raising
    /\ LoopFrame

\* line 65: ConnectHandler(...) is not inside any try block
ForConnect ==
    /\ script = "forloop" /\ pc = "for_connect"
    /\ \E res \in CallOutcomes :
        /\ Call("connect", res)
        /\ IF res = "ok"
           THEN open' = open \cup {i} /\ pc' = "for_send" /\ UNCHANGED raising
           ELSE open' = open /\ Propagate
    /\ UNCHANGED <<printed, hostname, config, sent>>
    /\ NetmikoFrame

\* the two commands of line 29
NumForCommands == 2

\* lines 67-69: an exception leaves the with block through __exit__
ForSend ==
    /\ script = "forloop" /\ pc = "for_send"
    /\ \E res \in CallOutcomes :
        /\ Call("send_command", res)
        /\ IF res = "ok"
           THEN /\ sent' = sent + 1
                /\ raising' = FALSE
                /\ pc' = IF sent + 1 = NumForCommands THEN "for_exit" ELSE "for_send"
           ELSE /\ sent' = sent
                /\ raising' = TRUE
                /\ pc' = "for_exit"
    /\ UNCHANGED <<open, printed, hostname, config>>
    /\ NetmikoFrame

\* line 65, leaving the with block: __exit__ disconnects, then a pending
\* exception (or one raised by the disconnect) leaves the script
ForExit ==
    /\ script = "forloop" /\ pc = "for_exit"
    /\ \E res \in CallOutcomes :
        /\ Call("disconnect", res)
        /\ open' = IF res = "ok" THEN open \ {i} ELSE open
        /\ IF res = "ok" /\ ~raising
           THEN pc' = "loop" /\ UNCHANGED raising
           ELSE Propagate
    /\ UNCHANGED <<printed, hostname, config, sent>>
    /\ NetmikoFrame

\* ------------------------------------------------------------------------
\* basic_scripts/backup_config.py
\* ------------------------------------------------------------------------

\* s.split(): the words of s, separated by runs of whitespace
RECURSIVE SplitWords(_)
SplitWords(s) ==
    LET u == LStrip(s)
    IN  IF u = <<>> THEN <<>>
        ELSE LET n == CHOOSE m \in 1..Len(u) :
                        /\ \A j \in 1..m : ~IsSpace(u[j])
                        /\ (m = Len(u) \/ IsSpace(u[m + 1]))
             IN  <<SubSeq(u, 1, n)>> \o SplitWords(SubSeq(u, n + 1, Len(u)))

\* Outputs of "show run | inc hostname"
HostnameOutputs ==
    { <<"h","o","s","t","n","a","m","e"," ","R","1">>, <<"h","o","s","t","n","a","m","e"," ","C","O","R","E","1"," ">>, <<"h","o","s","t","n","a","m","e"," "," ","C","O","R">>, <<>> }

KeywordBgp == <<"r","o","u","t","e","r"," ","b","g","p">>
KeywordEigrp == <<"r","o","u","t","e","r"," ","e","i","g","r","p">>
KeywordStatic == <<"i","p"," ","r","o","u","t","e">>

ConfigSectionLines == << <<"r","o","u","t","e","r"," ","b","g","p"," ","1">>, <<"r","o","u","t","e","r"," ","e","i","g","r","p"," ","1">>, <<"i","p"," ","r","o","u","t","e"," ","0","/","0"," ","e","0">> >>

\* Outputs of "show run": an interface line, then any of the three sections
RunningConfigs ==
    { JoinLines(<< <<"r","o","u","t","e","r"," ","o","s","p","f"," ","1">> >>
                \o (IF f[1] THEN <<ConfigSectionLines[1]>> ELSE <<>>)
                \o (IF f[2] THEN <<ConfigSectionLines[2]>> ELSE <<>>)
                \o (IF f[3] THEN <<ConfigSectionLines[3]>> ELSE <<>>)) :
        f \in [1..3 -> BOOLEAN] }

\* the test of line 22, negated: the device is saved
HostnameRule(name) == StartsWith(HostnameRulePrefix, name)

BackupFrame ==
    UNCHANGED <<script, devices, i, mode, show_mode, config_xml, has_candidate,
                has_validate, used_port, started, doc, printed, sent, raising,
                load_outcome, choice, ips>>

\* line 10
BackupLoop ==
    /\ script = "backup" /\ pc = "loop"
    /\ IF i < Len(devices)
       THEN NextDevice("bk_connect")
       ELSE pc' = "done" /\ UNCHANGED <<i, started, rpcs, sent>>
    /\ UNCHANGED raising
    /\ LoopFrame

\* lines 11-18; every exception of the body lands in lines 56-57, which print
\* and let the loop go on
BackupConnect ==
    /\ script = "backup" /\ pc = "bk_connect"
    /\ \E res \in CallOutcomes :
        /\ Call("connect", res)
        /\ IF res = "ok"
           THEN open' = open \cup {i} /\ pc' = "bk_hostname"
           ELSE open' = open /\ pc' = "loop"
    /\ UNCHANGED <<hostname, config>>
    /\ BackupFrame

\* lines 19-22: send_command(...).split()[-1], then the hostname rule
BackupHostname ==
    /\ script = "backup" /\ pc = "bk_hostname"
    /\ \E res \in CallOutcomes, output \in HostnameOutputs :
        LET words == SplitWords(output)
        IN  /\ Call("send_command hostname", res)
            /\ IF res = "ok" /\ words # <<>>
               THEN /\ hostname' = words[Len(words)]
                    /\ pc' = IF ~HostnameRule(words[Len(words)]) THEN "bk_skip"
                             ELSE "bk_show_run"
               ELSE /\ hostname' = hostname
                    /\ pc' = "loop"
    /\ UNCHANGED <<open, config>>
    /\ BackupFrame

\* a conn.disconnect() of the loop body (lines 24 and 54)
BackupDisconnectAt(at) ==
    /\ script = "backup" /\ pc = at
    /\ \E res \in CallOutcomes :
        /\ Call("disconnect", res)
        /\ open' = IF res = "ok" THEN open \ {i} ELSE open
    /\ pc' = "loop"
    /\ UNCHANGED <<hostname, config>>
    /\ BackupFrame

\* lines 23-25
BackupSkip == BackupDisconnectAt("bk_skip")

\* line 27
BackupShowRun ==
    /\ script = "backup" /\ pc = "bk_show_run"
    /\ \E res \in CallOutcomes, output \in RunningConfigs :
        /\ Call("send_command show run", res)
        /\ IF res = "ok"
           THEN config' = output /\ pc' = "bk_write"
           ELSE config' = config /\ pc' = "loop"
    /\ UNCHANGED <<open, hostname>>
    /\ BackupFrame

\* lines 28-33
BackupWrite ==
    /\ script = "backup" /\ pc = "bk_write"
    /\ \E res \in CallOutcomes :
        /\ Call("write .cfg", res)
        /\ pc' = IF res = "ok" THEN "bk_bgp" ELSE "loop"
    /\ UNCHANGED <<open, hostname, config>>
    /\ BackupFrame

\* a section of lines 35-52: when the keyword occurs in the running config,
\* fetch the section and write its file
BackupSection(at, keyword, suffix, next) ==
    /\ script = "backup" /\ pc = at
    /\ IF Contains(keyword, config)
       THEN \E res \in CallOutcomes, wres \in CallOutcomes :
            /\ contacted' = contacted \cup {i}
            /\ IF res = "ok"
               THEN /\ rpcs' = rpcs \o <<Ev("send_command section", 0, res),
                                         Ev("write " \o suffix, 0, wres)>>
                    /\ pc' = IF wres = "ok" THEN next ELSE "loop"
               ELSE /\ rpcs' = Append(rpcs, Ev("send_command section", 0, res))
                    /\ pc' = "loop"
       ELSE /\ pc' = next
            /\ UNCHANGED <<rpcs, contacted>>
    /\ UNCHANGED <<open, hostname, config>>
    /\ BackupFrame

\* lines 35-40
BackupBgp == BackupSection("bk_bgp", KeywordBgp, "_BGP.cfg", "bk_eigrp")

\* lines 42-46
BackupEigrp == BackupSection("bk_eigrp", KeywordEigrp, "_EIGRP.cfg", "bk_static")

\* lines 48-52
BackupStatic == BackupSection("bk_static", KeywordStatic, "_StaticRoutes.cfg", "bk_disconnect")

\* line 54
BackupDisconnect == BackupDisconnectAt("bk_disconnect")

\* ------------------------------------------------------------------------
\* run_scripts/run_ping_check.py and tools/check_reachability_utils.py
\* ------------------------------------------------------------------------

\* Values os.system returns for the ping command: 0, the wait status of exit
\* codes 1 and 2, and -1 when the shell could not be started.
ExitStatuses == {0, 256, 512, -1}

\* the opposite test, `if result:`
PingLineTruthy(result) ==
    IF result # 0 THEN "is reachable" ELSE "is NOT reachable"

\* lines 16-19 of run_ping_check
PingLine(result) ==
    IF result = 0 THEN "is reachable" ELSE "is NOT reachable"

PingFrame ==
    UNCHANGED <<script, devices, mode, show_mode, config_xml, has_candidate,
                has_validate, used_port, open, raising, doc, hostname, config,
                sent, load_outcome, choice>>

\* run_ping_check.py lines 7-13: the list of host values, then the call
PingBuildIps ==
    /\ script = "run_ping" /\ pc = "loop"
    /\ ips' = [j \in 1..Len(devices) |-> devices[j].host]
    /\ pc' = "ping"
    /\ UNCHANGED <<i, started, contacted, rpcs, printed>>
    /\ PingFrame

\* run_ping_check lines 13-19: one os.system call and one printed line per ip
PingStep ==
    /\ script = "run_ping" /\ pc = "ping"
    /\ IF i < Len(ips)
       THEN \E result \in ExitStatuses :
            /\ i' = i + 1
            /\ started' = started \cup {i + 1}
            /\ contacted' = contacted \cup {i + 1}
            /\ rpcs' = Append(rpcs, [op |-> "ping", ip |-> ips[i + 1], port |-> 0,
                                     res |-> result])
            /\ printed' = Append(printed, [dev |-> i + 1, ip |-> ips[i + 1],
                                           line |-> PingLine(result)])
            /\ pc' = "ping"
       ELSE /\ pc' = "done"
            /\ UNCHANGED <<i, started, contacted, rpcs, printed>>
    /\ UNCHANGED ips
    /\ PingFrame

\* ------------------------------------------------------------------------
\* Properties
\* ------------------------------------------------------------------------

\* the work on the current device has ended: the loop is about to take the
\* next device, the script has ended, or an exception has left the script
DeviceLeft == i >= 1 /\ pc \in {"loop", "done", "crashed"}

Ended == pc \in {"done", "crashed"}

Has(op, res) == \E n \in 1..Len(rpcs) : rpcs[n].op = op /\ rpcs[n].res = res

Attempted(op) == \E n \in 1..Len(rpcs) : rpcs[n].op = op

SessionOpened == Has("connect", "ok")

LockAcquired == Has("lock", "ok")

EditFailed == \E n \in 1..Len(rpcs) : rpcs[n].op = "edit-config" /\ rpcs[n].res # "ok"

\* the operations sent on the session, after it was established
SessionOps == SelectSeq(rpcs, LAMBDA e : e.op \notin {"probe", "connect"})

\* C1: in the NETCONF orchestrator, whatever fails on a device, the loop goes
\* on to every later device and ends at "All devices processed".
C1_LoopSurvivesEveryFailure ==
    (script = "netconf" /\ Ended)
        => (pc = "done" /\ started = 1..Len(devices))

\* C2: changes mode, lock acquired, edit-config failed: when the device is
\* left its session is closed and the lock was released by a successful unlock.
C2_EditFailureReleasesLock ==
    (script = "netconf" /\ mode = "changes" /\ DeviceLeft /\ LockAcquired /\ EditFailed)
        => (i \notin open /\ Has("unlock", "ok"))

\* C3: changes mode, lock acquired: before the device is left an unlock and
\* then a close-session were attempted, and no failure aborted the loop.
C3_UnlockThenCloseAlwaysAttempted ==
    (script = "netconf" /\ mode = "changes" /\ DeviceLeft /\ LockAcquired)
        => /\ \E a, b \in 1..Len(rpcs) :
                a < b /\ rpcs[a].op = "unlock" /\ rpcs[b].op = "close-session"
           /\ pc # "crashed"

\* C4: changes mode with a payload that lacks "<config": main has returned
\* before the device loop, and no probe, connect or RPC was issued.
C4_BadPayloadAbortsBeforeAnyRpc ==
    (script = "netconf" /\ mode = "changes" /\ ~Contains(ConfigTag, config_xml))
        => /\ pc = "exit_bad_payload"
           /\ i = 0 /\ started = {} /\ contacted = {} /\ open = {} /\ rpcs = <<>>

\* C4 witness: devices were entered and a non-empty payload without "<config"
\* was pasted; main has returned.
C4_Witness ==
    /\ script = "netconf" /\ pc = "exit_bad_payload"
    /\ devices # <<>> /\ mode = "changes"
    /\ config_xml # <<>> /\ ~Contains(ConfigTag, config_xml)

\* C5: in every runner, a session that was opened for a device has been
\* explicitly disconnected / closed when the runner leaves that device.
C5_OpenedSessionIsClosedOnEveryPath ==
    (DeviceLeft /\ SessionOpened)
        => (Attempted("disconnect") \/ Attempted("close-session"))

\* C6: at most one session is open at any time of a batch run.
C6_AtMostOneOpenSession == Cardinality(open) <= 1

\* C7: in the Netmiko batch scripts a failure on one device never keeps the
\* loop from the later devices: when the script has ended, the loop body was
\* executed for every device of the list.
C7_NetmikoLoopsSurviveFailures ==
    (script \in {"forloop", "run_show", "backup"} /\ load_outcome \in {"none", "ok"} /\ Ended)
        => started = 1..Len(devices)

\* C8: push-config runner, inventory records with only a host key: one
\* outcome line per device, in list order, and no exception leaves the loop.
C8_PushOneOutcomePerDevice ==
    (/\ script = "run_push" /\ load_outcome = "ok" /\ Ended
     /\ \A j \in 1..Len(devices) : DOMAIN devices[j] = {"host"})
        => /\ pc = "done"
           /\ Len(printed) = Len(devices)
           /\ \A j \in 1..Len(printed) : printed[j].dev = j

\* the exceptions load_devices_from_yaml can end with (the LoadError outcome)
LoadErrors == {"FileNotFoundError", "YAMLError", "TypeError", "KeyError"}

NoDevicesKey(d) ==
    \/ d.kind = "empty"
    \/ d.kind = "mapping" /\ "devices" \notin DOMAIN d.data

\* C9: an inventory document without a 'devices' key makes
\* load_devices_from_yaml fail; no list is returned and the calling script
\* processes no device.
C9_MissingDevicesKeyIsLoadError ==
    (script \in InventoryScripts /\ pc # "start" /\ NoDevicesKey(doc))
        => /\ load_outcome \in LoadErrors
           /\ pc = "crashed"
           /\ devices = <<>> /\ i = 0 /\ started = {} /\ contacted = {}

\* C9 witness: a mapping without the key was loaded and the load failed.
C9_Witness ==
    /\ script \in InventoryScripts
    /\ doc.kind = "mapping" /\ "devices" \notin DOMAIN doc.data
    /\ load_outcome = "KeyError" /\ pc = "crashed"

\* C10: changes mode, ':candidate' not advertised: the only operation sent on
\* the session is close-session, and the loop goes on with the next device.
C10_NoCandidateOnlyClosesAndContinues ==
    (script = "netconf" /\ mode = "changes" /\ DeviceLeft /\ SessionOpened /\ ~has_candidate)
        => /\ Len(SessionOps) = 1
           /\ SessionOps[1].op = "close-session"
           /\ pc # "crashed"

LockFailed == Has("lock", "RPCError")

\* C11: changes mode, the lock RPC failed: the only operation after the lock
\* is close-session, the session is closed and the loop goes on.
C11_LockFailureOnlyClosesAndContinues ==
    (script = "netconf" /\ mode = "changes" /\ DeviceLeft /\ LockFailed)
        => /\ Len(SessionOps) = 2
           /\ SessionOps[1].op = "lock"
           /\ SessionOps[2].op = "close-session"
           /\ i \notin open
           /\ pc # "crashed"

\* positions of the try block that lie after the validation step
PastValidate ==
    {"choose", "choose_vf", "commit", "discard", "commit_vf", "discard_vf",
     "unlock", "unlock_vf", "close_vf"}

ValidationFailed == Has("validate", "RPCError")

\* C12: the validate RPC is sent exactly when ':validate' is advertised; after
\* a failed validation the operator is asked, 'commit' sends commit and no
\* discard-changes, 'rollback' sends discard-changes and no commit.
C12_ValidateAndOperatorOverride ==
    script = "netconf" =>
        /\ Attempted("validate") => has_validate
        /\ (pc \in PastValidate /\ has_validate) => Attempted("validate")
        /\ ValidationFailed =>
            /\ pc \in {"choose_vf", "commit_vf", "discard_vf", "unlock_vf",
                       "close_vf", "finally", "loop", "done", "crashed"}
            /\ pc = "commit_vf" => choice = "commit"
            /\ pc = "discard_vf" => choice = "rollback"
            /\ pc \notin {"choose_vf", "commit_vf", "discard_vf"} =>
                /\ choice = "commit" => (Attempted("commit") /\ ~Attempted("discard-changes"))
                /\ choice = "rollback" => (Attempted("discard-changes") /\ ~Attempted("commit"))

\* C12 witness: the validation failed, the operator chose commit and the
\* commit was sent and accepted.
C12_Witness ==
    /\ script = "netconf" /\ pc = "unlock_vf"
    /\ ValidationFailed /\ choice = "commit" /\ Has("commit", "ok")

\* the probes and handshakes of connect_netconf for the current device
ConnectEvents == SelectSeq(rpcs, LAMBDA e : e.op \in {"probe", "connect"})

PortIndex(p) == CHOOSE n \in 1..Len(ports) : ports[n] = p

\* C13: connect_netconf probes the ports in list order, hands a port to the
\* NETCONF handshake only after its probe found it open, returns the first
\* port whose probe and handshake both succeeded, and fails only after every
\* port was tried.
C13_ConnectTriesPortsInOrder ==
    (script = "netconf" /\ i >= 1 /\ pc # "connect") =>
        LET E == ConnectEvents
        IN  /\ \A n \in 1..Len(E) : E[n].op = "connect" =>
                    /\ n > 1
                    /\ E[n - 1].op = "probe" /\ E[n - 1].res = "open"
                    /\ E[n - 1].port = E[n].port
            /\ \A n \in 1..Len(E) : (E[n].op = "probe" /\ E[n].res = "open") =>
                    /\ n < Len(E)
                    /\ E[n + 1].op = "connect"
            /\ \A a, b \in 1..Len(E) : (a < b /\ E[a].op = "probe" /\ E[b].op = "probe") =>
                    PortIndex(E[a].port) < PortIndex(E[b].port)
            /\ \A n \in 1..Len(E) : (E[n].op = "connect" /\ E[n].res = "ok") =>
                    /\ n = Len(E)
                    /\ used_port = E[n].port
                    /\ \A q \in 1..(PortIndex(used_port) - 1) :
                            \E a \in 1..Len(E) : E[a].op = "probe" /\ E[a].port = ports[q]
            /\ ~SessionOpened =>
                    /\ pc \in {"loop", "done"}
                    /\ \A q \in 1..Len(ports) :
                            \E a \in 1..Len(E) : E[a].op = "probe" /\ E[a].port = ports[q]

\* C13 witness: the first port was open but its handshake failed, the second
\* port gave the session.
C13_Witness ==
    /\ script = "netconf" /\ pc = "caps"
    /\ Len(ConnectEvents) = 4
    /\ ConnectEvents[2].op = "connect" /\ ConnectEvents[2].res # "ok"
    /\ used_port = ports[2]

\* C14: run_ping_check pings every ip once, in list order, prints one line per
\* ip, 'is reachable' exactly when the exit status is 0, and never raises.
C14_OnePingAndOneLinePerIp ==
    (script = "run_ping" /\ load_outcome = "ok") =>
        /\ pc # "crashed"
        /\ Len(rpcs) = i /\ Len(printed) = i
        /\ \A j \in 1..i :
            /\ rpcs[j].op = "ping" /\ rpcs[j].ip = devices[j].host
            /\ printed[j].dev = j /\ printed[j].ip = devices[j].host
            /\ printed[j].line \in {"is reachable", "is NOT reachable"}
            /\ printed[j].line = "is reachable" <=> rpcs[j].res = 0
        /\ pc = "done" => i = Len(devices)

\* C14 witness: two ips were checked, the first unreachable, the second
\* reachable, and the check has ended.
C14_Witness ==
    /\ script = "run_ping" /\ pc = "done" /\ Len(printed) = 2
    /\ rpcs[1].res # 0 /\ printed[1].line = "is NOT reachable"
    /\ rpcs[2].res = 0 /\ printed[2].line = "is reachable"

\* C15: in the NETCONF orchestrator, with a non-empty device list no input
\* error and no device error ends main before the loop has visited every
\* device: main ends only at "All devices processed", every device started.
C15_OnlyEmptyDeviceListEndsRun ==
    (script = "netconf" /\ devices # <<>>
     /\ pc \in {"done", "crashed", "exit_no_devices", "exit_bad_payload"})
        => pc = "done" /\ started = 1..Len(devices)

\* the positions in SessionOps at which op was sent
OpIndexes(op) == {n \in 1..Len(SessionOps) : SessionOps[n].op = op}

\* C16: changes mode, edit-config failed on the device: when the device is
\* left, discard-changes, then unlock, then close-session were sent after the
\* failed edit, edit-config was sent once, and validate and commit not at all.
C16_EditFailureCleanupOrder ==
    (script = "netconf" /\ mode = "changes" /\ DeviceLeft /\ EditFailed) =>
        /\ Cardinality(OpIndexes("edit-config")) = 1
        /\ OpIndexes("validate") = {} /\ OpIndexes("commit") = {}
        /\ \E e \in OpIndexes("edit-config"), d \in OpIndexes("discard-changes"),
              u \in OpIndexes("unlock"), c \in OpIndexes("close-session") :
                e < d /\ d < u /\ u < c

\* the hostname of the current device was read
HostnameRead ==
    \E n \in 1..Len(rpcs) :
        /\ rpcs[n].op = "send_command hostname" /\ rpcs[n].res = "ok"
        /\ n < Len(rpcs) \/ pc \notin {"loop", "done"}

SectionWrites == {"write _BGP.cfg", "write _EIGRP.cfg", "write _StaticRoutes.cfg"}

\* C17: the backup loop saves files only for hostnames that start with 'R';
\* another device gets no file and its session is disconnected; section files
\* come after <hostname>.cfg, each only when its keyword is in the config.
C17_BackupSavesOnlyHostnamesStartingWithR ==
    script = "backup" =>
        /\ \A n \in 1..Len(rpcs) :
            rpcs[n].op \in SectionWrites \cup {"write .cfg"}
                => StartsWith(<<"R">>, hostname)
        /\ (DeviceLeft /\ HostnameRead /\ ~StartsWith(<<"R">>, hostname))
                => Attempted("disconnect")
        /\ \A n \in 1..Len(rpcs) :
            rpcs[n].op \in SectionWrites
                => /\ \E w \in 1..(n - 1) : rpcs[w] = Ev("write .cfg", 0, "ok")
                   /\ rpcs[n].op = "write _BGP.cfg" => Contains(KeywordBgp, config)
                   /\ rpcs[n].op = "write _EIGRP.cfg" => Contains(KeywordEigrp, config)
                   /\ rpcs[n].op = "write _StaticRoutes.cfg" => Contains(KeywordStatic, config)

\* C18: per device the commit RPC is sent at most once, and only after the
\* lock was acquired and edit-config succeeded on that session and the
\* operator chose 'commit'; commit and discard-changes are never both sent for
\* one device, and in show mode neither is sent.
C18_CommitOnlyOnOperatorChoice ==
    script = "netconf" =>
        /\ Cardinality(OpIndexes("commit")) <= 1
        /\ \A c \in OpIndexes("commit") :
            /\ choice = "commit"
            /\ \E l \in OpIndexes("lock"), e \in OpIndexes("edit-config") :
                /\ l < e /\ e < c
                /\ SessionOps[l].res = "ok" /\ SessionOps[e].res = "ok"
        /\ ~(Attempted("commit") /\ Attempted("discard-changes"))
        /\ mode = "show" => (~Attempted("commit") /\ ~Attempted("discard-changes"))

\* C18 witness: after a validation that passed the operator chose commit and
\* the commit was sent once and accepted.
C18_Witness ==
    /\ script = "netconf" /\ pc = "unlock" /\ choice = "commit"
    /\ Has("validate", "ok") /\ Has("commit", "ok")

\* the RPCs that need the candidate lock
LockedOps == {"edit-config", "validate", "commit", "discard-changes", "unlock"}

\* C19: every edit-config, validate, commit, discard-changes and unlock is
\* sent after a successful lock on the session and before its close; unlock is
\* never sent when the lock failed or was skipped; nothing is sent on a
\* session after close-session was called on it.
C19_RpcsBetweenLockAndClose ==
    script = "netconf" =>
        /\ \A n \in 1..Len(SessionOps) :
            SessionOps[n].op \in LockedOps =>
                /\ \E l \in 1..(n - 1) : SessionOps[l] = Ev("lock", used_port, "ok")
                /\ \A c \in 1..(n - 1) : SessionOps[c].op # "close-session"
        /\ \A c \in OpIndexes("close-session") : c = Len(SessionOps)

\* C20: close-session is called exactly once on every established session,
\* on every path through the device loop.
C20_CloseSessionExactlyOnce ==
    script = "netconf" =>
        /\ Cardinality(OpIndexes("close-session")) <= 1
        /\ (DeviceLeft /\ SessionOpened) => Cardinality(OpIndexes("close-session")) = 1

\* ------------------------------------------------------------------------
\* Specification
\* ------------------------------------------------------------------------

Scripts == {"netconf", "backup", "forloop", "run_push", "run_show", "show_utils",
            "run_ping"}

Init ==
    /\ script \in Scripts
    /\ pc = "start"
    /\ devices = <<>>
    /\ i = 0
    /\ mode = "none"
    /\ show_mode = "none"
    /\ config_xml = <<>>
    /\ has_candidate = FALSE
    /\ has_validate = FALSE
    /\ used_port = 0
    /\ open = {}
    /\ started = {}
    /\ contacted = {}
    /\ rpcs = <<>>
    /\ raising = FALSE
    /\ doc = [kind |-> "none"]
    /\ printed = <<>>
    /\ hostname = <<>>
    /\ config = <<>>
    /\ sent = 0
    /\ load_outcome = "none"
    /\ choice = "none"
    /\ ips = <<>>

Next ==
    \/ MainPrompts \/ MainLoop \/ MainConnect \/ MainCapabilities
    \/ MainCloseNoCandidate \/ MainShow \/ MainCloseShow
    \/ MainLock \/ MainCloseLockFailure
    \/ MainEdit \/ MainDiscardAfterEditFailure \/ MainUnlockAfterEditFailure
    \/ MainCloseAfterEditFailure
    \/ MainValidate \/ MainChooseAfterValidationFailure
    \/ MainCommitAfterValidationFailure \/ MainDiscardAfterValidationFailure
    \/ MainUnlockAfterValidationFailure \/ MainCloseAfterValidationFailure
    \/ MainChoose \/ MainCommit \/ MainDiscard \/ MainUnlock \/ MainFinally
    \/ LoadInventory
    \/ PushLoop \/ PushConfigConnect \/ PushConfigSend \/ PushConfigFinally
    \/ ShowLoop \/ RunShowConnect \/ RunShowSend \/ RunShowFinally
    \/ HardCodedSetup \/ ForLoop \/ ForConnect \/ ForSend \/ ForExit
    \/ BackupLoop \/ BackupConnect \/ BackupHostname \/ BackupSkip
    \/ BackupShowRun \/ BackupWrite \/ BackupBgp \/ BackupEigrp \/ BackupStatic
    \/ BackupDisconnect
    \/ PingBuildIps \/ PingStep

Spec == Init /\ [][Next]_vars

=============================================================================
